---- MODULE Spec2Model ----
(***************************************************************************)
(* Model of the bot supervisor of src/index.js: the record store           *)
(* (activeBots), the persisted configuration file (bots.json), the log     *)
(* buffer, the sessions created through mineflayer.createBot, the          *)
(* startBot invocations suspended in the liveness probe and the pending    *)
(* reconnect timers.  Every handler of the event loop is one action.       *)
(*                                                                         *)
(* activeBots is an array of object references; the objects live in        *)
(* botObj, keyed by their `index` field (Date.now() + Math.random(), a     *)
(* fresh value per record, modelled as a counter), so that a reference     *)
(* captured by a suspended startBot survives the record's removal from     *)
(* the array.  A log entry's timestamp is modelled by the logical time t   *)
(* of its append.                                                          *)
(***************************************************************************)
EXTENDS Integers, Sequences, FiniteSets, Bags, TLC

\* ---- bounds of the model ----
MaxBots == 2
MaxLoad == 2
MaxStarts == 2
MaxSessions == 2
MaxAppends == 110

\* ---- program constants ----
LogCapacity == 50

Configs == {"alice", "bob"}

Origins == {"init", "add", "control", "timer"}

VARIABLES
  phase,          \* "boot" before init() has run, "run" after
  autoReconnect,  \* process.env.AUTO_RECONNECT === 'true'
  autoJoin,       \* process.env.AUTO_JOIN_ENABLED === 'true'
  file,           \* bots.json: [kind: absent | corrupt | list, data]
  activeBots,     \* the array, as the sequence of the records' index fields
  botObj,         \* the record objects ever created, by index
  sessions,       \* the bots created by mineflayer.createBot, by creation order
  logs,           \* the log buffer
  pending,        \* bag of <<index, origin>>: startBot calls awaiting the probe
  timers,         \* bag of index: setTimeout(() => startBot(index), 10000)
  starts,         \* number of startBot calls that reached the probe
  stopIssued,     \* indexes of records in the store for which a stop command
                  \* was received and no start command since
  probe           \* one call of checkServerAlive: its timer, socket and promise

vars == <<phase, autoReconnect, autoJoin, file, activeBots, botObj, sessions,
          logs, pending, timers, starts, stopIssued, probe>>

\* The mutable program state as one value, so that handlers compose.
World ==
  [file |-> file, activeBots |-> activeBots, botObj |-> botObj,
   sessions |-> sessions, logs |-> logs, pending |-> pending,
   timers |-> timers, starts |-> starts]

Commit(w) ==
  /\ file' = w.file
  /\ activeBots' = w.activeBots
  /\ botObj' = w.botObj
  /\ sessions' = w.sessions
  /\ logs' = w.logs
  /\ pending' = w.pending
  /\ timers' = w.timers
  /\ starts' = w.starts

Range(s) == {s[k] : k \in 1..Len(s)}

SeqsUpTo(S, n) == UNION {[1..k -> S] : k \in 0..n}

\* ---- utilities ----
Msg(kind, arg) == [kind |-> kind, arg |-> arg]

lastT(l) == IF l = <<>> THEN 0 ELSE l[Len(l)].t

\* addLog evicting as soon as the buffer reaches its capacity
addLog_EvictAtCapacity(l, msg) ==
  LET entry == [t |-> lastT(l) + 1, msg |-> msg]
      pushed == Append(l, entry)
  IN  IF Len(pushed) >= LogCapacity THEN Tail(pushed) ELSE pushed

addLog(l, msg) ==
  LET entry == [t |-> lastT(l) + 1, msg |-> msg]
      pushed == Append(l, entry)
  IN  IF Len(pushed) > LogCapacity THEN Tail(pushed) ELSE pushed

\* ---- persistence ----
loadBots(f) == IF f.kind = "list" THEN f.data ELSE <<>>

loadLogs(f, l) == IF f.kind = "corrupt" THEN addLog(l, Msg("ErrorReading", "")) ELSE l

configsOf(w) == [k \in 1..Len(w.activeBots) |-> w.botObj[w.activeBots[k]].config]

saveAllBots(w) == [w EXCEPT !.file = [kind |-> "list", data |-> configsOf(w)]]

\* ---- bot management ----
find(w, index) == index \in Range(w.activeBots)

createBotInstance(w, botConfig, index) ==
  [w EXCEPT !.logs = addLog(@, Msg("Initiating", botConfig)),
            !.sessions = Append(@, [index |-> index, config |-> botConfig,
                                    st |-> "live", sawStopped |-> FALSE,
                                    sawHandle |-> 0])]

\* the 'end' handler leaving the record's handle in place
onEnd_KeepsHandle(w, s, reconnect) ==
  LET index == w.sessions[s].index
      w1 == [w EXCEPT !.logs = addLog(@, Msg("OFFLINE", w.sessions[s].config)),
                      !.sessions[s].st = "ended"]
  IN  IF find(w1, index)
      THEN IF ~w1.botObj[index].manuallyStopped /\ reconnect
           THEN [w1 EXCEPT
                   !.logs = addLog(@, Msg("AutoReconnecting", w.sessions[s].config)),
                   !.timers = @ (+) SetToBag({index})]
           ELSE w1
      ELSE w1

\* the 'end' handler rescheduling without looking at manuallyStopped
onEnd_IgnoresManualStop(w, s, reconnect) ==
  LET index == w.sessions[s].index
      w1 == [w EXCEPT !.logs = addLog(@, Msg("OFFLINE", w.sessions[s].config)),
                      !.sessions[s].st = "ended"]
  IN  IF find(w1, index)
      THEN LET w2 == [w1 EXCEPT !.botObj[index].instance = 0]
           IN  IF reconnect
               THEN [w2 EXCEPT
                       !.logs = addLog(@, Msg("AutoReconnecting", w.sessions[s].config)),
                       !.timers = @ (+) SetToBag({index})]
               ELSE w2
      ELSE w1

\* bot.on('end')
onEnd(w, s, reconnect) ==
  LET index == w.sessions[s].index
      w1 == [w EXCEPT !.logs = addLog(@, Msg("OFFLINE", w.sessions[s].config)),
                      !.sessions[s].st = "ended"]
  IN  IF find(w1, index)
      THEN LET w2 == [w1 EXCEPT !.botObj[index].instance = 0]
           IN  IF ~w2.botObj[index].manuallyStopped /\ reconnect
               THEN [w2 EXCEPT
                       !.logs = addLog(@, Msg("AutoReconnecting", w.sessions[s].config)),
                       !.timers = @ (+) SetToBag({index})]
               ELSE w2
      ELSE w1

\* startBot up to its await
startBot(w, index, origin) ==
  IF find(w, index) /\ w.botObj[index].instance = 0
  THEN [w EXCEPT !.logs = addLog(@, Msg("Pinging", w.botObj[index].config)),
                 !.pending = @ (+) SetToBag({<<index, origin>>}),
                 !.starts = @ + 1]
  ELSE w

\* startBot leaving manuallyStopped as it was
startBotResume_KeepsStopped(w, p, isAlive) ==
  LET index == p[1]
      w0 == [w EXCEPT !.pending = @ (-) SetToBag({p})]
  IN  IF ~isAlive
      THEN [w0 EXCEPT !.logs = addLog(@, Msg("ABORT", w.botObj[index].config))]
      ELSE LET w1 == createBotInstance(w0, w.botObj[index].config, index)
           IN  [w1 EXCEPT !.botObj[index].instance = Len(w1.sessions)]

\* startBot scheduling a retry when the probe fails
startBotResume_RetryOnAbort(w, p, isAlive) ==
  LET index == p[1]
      w0 == [w EXCEPT !.pending = @ (-) SetToBag({p})]
  IN  IF ~isAlive
      THEN [w0 EXCEPT !.logs = addLog(@, Msg("ABORT", w.botObj[index].config)),
                      !.timers = @ (+) SetToBag({index})]
      ELSE LET w1 == createBotInstance(w0, w.botObj[index].config, index)
           IN  [w1 EXCEPT !.botObj[index].instance = Len(w1.sessions),
                          !.botObj[index].manuallyStopped = FALSE]

\* startBot after its await; `state` is the object captured before it
startBotResume(w, p, isAlive) ==
  LET index == p[1]
      w0 == [w EXCEPT !.pending = @ (-) SetToBag({p})]
  IN  IF ~isAlive
      THEN [w0 EXCEPT !.logs = addLog(@, Msg("ABORT", w.botObj[index].config))]
      ELSE LET w1 == createBotInstance(w0, w.botObj[index].config, index)
           IN  [w1 EXCEPT !.botObj[index].instance = Len(w1.sessions),
                          !.botObj[index].manuallyStopped = FALSE]

\* bot.quit(): the session is told to disconnect; its 'end' event follows in
\* a later handler.  sawStopped and sawHandle record the record's fields at
\* the moment of the call.
quit(w, s, index) ==
  IF w.sessions[s].st = "live"
  THEN [w EXCEPT !.sessions[s].st = "quitting",
                 !.sessions[s].sawStopped = w.botObj[index].manuallyStopped,
                 !.sessions[s].sawHandle = w.botObj[index].instance]
  ELSE w

\* stopBot leaving the handle in place after quit()
stopBot_KeepsHandle(w, index) ==
  IF find(w, index) /\ w.botObj[index].instance # 0
  THEN LET w1 == [w EXCEPT !.botObj[index].manuallyStopped = TRUE]
       IN  quit(w1, w1.botObj[index].instance, index)
  ELSE w

\* stopBot setting manuallyStopped on an offline record too
stopBot_FlagsOffline(w, index) ==
  IF find(w, index)
  THEN IF w.botObj[index].instance # 0
       THEN LET w1 == [w EXCEPT !.botObj[index].manuallyStopped = TRUE]
                w2 == quit(w1, w1.botObj[index].instance, index)
            IN  [w2 EXCEPT !.botObj[index].instance = 0]
       ELSE [w EXCEPT !.botObj[index].manuallyStopped = TRUE]
  ELSE w

\* stopBot calling quit() before it sets manuallyStopped
stopBot_QuitBeforeFlag(w, index) ==
  IF find(w, index) /\ w.botObj[index].instance # 0
  THEN LET w1 == quit(w, w.botObj[index].instance, index)
           w2 == [w1 EXCEPT !.botObj[index].manuallyStopped = TRUE]
       IN  [w2 EXCEPT !.botObj[index].instance = 0]
  ELSE w

stopBot(w, index) ==
  IF find(w, index) /\ w.botObj[index].instance # 0
  THEN LET w1 == [w EXCEPT !.botObj[index].manuallyStopped = TRUE]
           w2 == quit(w1, w1.botObj[index].instance, index)
       IN  [w2 EXCEPT !.botObj[index].instance = 0]
  ELSE w

\* GET /status
status(w) ==
  [k \in 1..Len(w.activeBots) |->
     LET b == w.botObj[w.activeBots[k]]
     IN  [config |-> b.config,
          status |-> IF b.instance # 0 THEN "online" ELSE "offline",
          index |-> w.activeBots[k]]]

\* add-bot without the immediate start
addBot_NoStart(w, config) ==
  LET index == Len(w.botObj) + 1
      w1 == [w EXCEPT !.botObj = Append(@, [config |-> config, instance |-> 0,
                                            manuallyStopped |-> FALSE]),
                      !.activeBots = Append(@, index)]
  IN  saveAllBots(w1)

\* POST /add-bot up to the await inside startBot
addBot(w, config) ==
  LET index == Len(w.botObj) + 1
      w1 == [w EXCEPT !.botObj = Append(@, [config |-> config, instance |-> 0,
                                            manuallyStopped |-> FALSE]),
                      !.activeBots = Append(@, index)]
  IN  startBot(saveAllBots(w1), index, "add")

\* delete-bot saving before it filters the array
deleteBot_SaveBeforeFilter(w, index) ==
  LET w1 == saveAllBots(stopBot(w, index))
  IN  [w1 EXCEPT !.activeBots = SelectSeq(@, LAMBDA b : b # index)]

\* delete-bot without the forced stop
deleteBot_NoStop(w, index) ==
  saveAllBots([w EXCEPT !.activeBots = SelectSeq(@, LAMBDA b : b # index)])

\* POST /delete-bot
deleteBot(w, index) ==
  LET w1 == stopBot(w, index)
      w2 == [w1 EXCEPT !.activeBots = SelectSeq(@, LAMBDA b : b # index)]
  IN  saveAllBots(w2)

\* init()
RECURSIVE startAll(_, _)
startAll(w, k) ==
  IF k > Len(w.activeBots) THEN w
  ELSE startAll(startBot(w, w.activeBots[k], "init"), k + 1)

\* init() building the loaded records as add-bot does
init_LoadedNotStopped(w, join) ==
  LET saved == loadBots(w.file)
      w1 == [w EXCEPT
               !.logs = loadLogs(w.file, @),
               !.botObj = [k \in 1..Len(saved) |->
                             [config |-> saved[k], instance |-> 0,
                              manuallyStopped |-> FALSE]],
               !.activeBots = [k \in 1..Len(saved) |-> k]]
      w2 == [w1 EXCEPT !.logs = addLog(@, Msg("Initialized", Len(saved)))]
  IN  IF join THEN startAll(w2, 1) ELSE w2

init(w, join) ==
  LET saved == loadBots(w.file)
      w1 == [w EXCEPT
               !.logs = loadLogs(w.file, @),
               !.botObj = [k \in 1..Len(saved) |->
                             [config |-> saved[k], instance |-> 0,
                              manuallyStopped |-> TRUE]],
               !.activeBots = [k \in 1..Len(saved) |-> k]]
      w2 == [w1 EXCEPT !.logs = addLog(@, Msg("Initialized", Len(saved)))]
  IN  IF join THEN startAll(w2, 1) ELSE w2

\* ---- the liveness prober ----
\* One call of checkServerAlive(host, port).  timer: the setTimeout is armed;
\* socket: new | connecting | destroyed; promise: pending | true | false |
\* rejected; settles: the calls that tried to settle the promise.
ProbeIdle ==
  [called |-> FALSE, timer |-> FALSE, socket |-> "new", promise |-> "pending",
   settles |-> 0, cause |-> "none"]

\* resolve(v): only the first settlement of a promise counts
resolve(pr, v, cause) ==
  [pr EXCEPT !.promise = IF @ = "pending" THEN v ELSE @,
             !.cause = IF pr.promise = "pending" THEN cause ELSE @,
             !.settles = @ + 1]

\* The promise executor.  socket.connect(port, host, cb) validates the port
\* and throws on one outside 0..65535; a throw in the executor rejects the
\* promise, leaves the timer armed and skips socket.on('error').
checkServerAlive(pr, portOk) ==
  LET armed == [pr EXCEPT !.called = TRUE, !.timer = TRUE]
  IN  IF portOk
      THEN [armed EXCEPT !.socket = "connecting"]
      ELSE [armed EXCEPT !.promise = "rejected", !.cause = "throw",
                         !.settles = @ + 1]

\* the setTimeout callback
onTimeout(pr) ==
  resolve([pr EXCEPT !.timer = FALSE, !.socket = "destroyed"], "false", "timeout")

\* the connect callback
onConnect(pr) ==
  resolve([pr EXCEPT !.timer = FALSE, !.socket = "destroyed"], "true", "connect")

\* socket.on('error'); the socket destroys itself after emitting it
onError(pr) ==
  resolve([pr EXCEPT !.timer = FALSE, !.socket = "destroyed"], "false", "error")

\* ---- the state after the module has been loaded ----
FileInit ==
  {[kind |-> "absent", data |-> <<>>], [kind |-> "corrupt", data |-> <<>>]}
    \cup {[kind |-> "list", data |-> d] : d \in SeqsUpTo(Configs, MaxLoad)}

Init ==
  /\ phase = "boot"
  /\ autoReconnect \in BOOLEAN
  /\ autoJoin \in BOOLEAN
  /\ file \in FileInit
  /\ activeBots = <<>>
  /\ botObj = <<>>
  /\ sessions = <<>>
  /\ logs = <<>>
  /\ pending = EmptyBag
  /\ timers = EmptyBag
  /\ starts = 0
  /\ stopIssued = {}
  /\ probe = ProbeIdle

\* ---- the handlers of the event loop ----
Env == UNCHANGED <<autoReconnect, autoJoin, probe>>

Boot ==
  /\ phase = "boot"
  /\ phase' = "run"
  /\ Commit(init(World, autoJoin))
  /\ UNCHANGED stopIssued /\ Env

AddBot(config) ==
  /\ phase = "run"
  /\ Len(botObj) < MaxBots
  /\ starts < MaxStarts
  /\ Commit(addBot(World, config))
  /\ UNCHANGED <<phase, stopIssued>> /\ Env

ControlStart(index) ==
  /\ phase = "run"
  /\ starts < MaxStarts
  /\ Commit(startBot(World, index, "control"))
  /\ stopIssued' = stopIssued \ {index}
  /\ UNCHANGED phase /\ Env

ControlStop(index) ==
  /\ phase = "run"
  /\ Commit(stopBot(World, index))
  /\ stopIssued' = IF find(World, index) THEN stopIssued \cup {index} ELSE stopIssued
  /\ UNCHANGED phase /\ Env

DeleteBot(index) ==
  /\ phase = "run"
  /\ Commit(deleteBot(World, index))
  /\ stopIssued' = stopIssued \ {index}
  /\ UNCHANGED phase /\ Env

ProbeResolve(p, isAlive) ==
  /\ BagIn(p, pending)
  /\ isAlive => Len(sessions) < MaxSessions
  /\ Commit(startBotResume(World, p, isAlive))
  /\ UNCHANGED <<phase, stopIssued>> /\ Env

SessionEnd(s) ==
  /\ s \in 1..Len(sessions)
  /\ sessions[s].st # "ended"
  /\ Commit(onEnd(World, s, autoReconnect))
  /\ UNCHANGED <<phase, stopIssued>> /\ Env

TimerFire(index) ==
  /\ BagIn(index, timers)
  /\ starts < MaxStarts
  /\ Commit(startBot([World EXCEPT !.timers = @ (-) SetToBag({index})],
                     index, "timer"))
  /\ UNCHANGED <<phase, stopIssued>> /\ Env

Indexes == 1..MaxBots

Next ==
  \/ Boot
  \/ \E config \in Configs : AddBot(config)
  \/ \E index \in Indexes : ControlStart(index)
  \/ \E index \in Indexes : ControlStop(index)
  \/ \E index \in Indexes : DeleteBot(index)
  \/ \E p \in Indexes \X Origins, isAlive \in BOOLEAN : ProbeResolve(p, isAlive)
  \/ \E s \in 1..MaxSessions : SessionEnd(s)
  \/ \E index \in Indexes : TimerFire(index)

Spec == Init /\ [][Next]_vars

\* A handler that only writes to the log buffer (the session's 'spawn',
\* 'message' and 'error' handlers): one call of addLog.
AppendLog ==
  /\ lastT(logs) < MaxAppends
  /\ logs' = addLog(logs, Msg("Event", ""))
  /\ UNCHANGED <<phase, autoReconnect, autoJoin, file, activeBots, botObj,
                 sessions, pending, timers, starts, stopIssued, probe>>

LogNext == AppendLog

\* ---- the events of one liveness probe ----
Rest ==
  UNCHANGED <<phase, autoReconnect, autoJoin, file, activeBots, botObj,
              sessions, logs, pending, timers, starts, stopIssued>>

ProbeCall(portOk) ==
  /\ ~probe.called
  /\ probe' = checkServerAlive(probe, portOk)
  /\ Rest

ProbeTimeout ==
  /\ probe.timer
  /\ probe' = onTimeout(probe)
  /\ Rest

ProbeConnected ==
  /\ probe.socket = "connecting"
  /\ probe' = onConnect(probe)
  /\ Rest

ProbeError ==
  /\ probe.socket = "connecting"
  /\ probe' = onError(probe)
  /\ Rest

ProbeNext ==
  \/ \E portOk \in BOOLEAN : ProbeCall(portOk)
  \/ ProbeTimeout
  \/ ProbeConnected
  \/ ProbeError

SpecProbe == Init /\ [][ProbeNext]_vars

SpecLog == Init /\ [][LogNext]_vars

\* ---- properties ----

Ids(w) == Range(w.activeBots)

Count(l, kind) == Cardinality({k \in 1..Len(l) : l[k].msg.kind = kind})

\* C1: every step of the running program that changes the store's list of
\* records or the persisted file (add-bot, delete-bot) leaves the persisted
\* file holding exactly the configs of the records of activeBots, in the
\* same order, each a bare configuration.
C1_PersistedEqualsStore ==
  [][(phase = "run" /\ (activeBots' # activeBots \/ file' # file))
       => /\ file'.kind = "list"
          /\ Len(file'.data) = Len(activeBots')
          /\ \A k \in 1..Len(activeBots') :
                /\ file'.data[k] = botObj'[activeBots'[k]].config
                /\ file'.data[k] \in Configs]_vars

C1_Witness ==
  /\ phase = "run"
  /\ Len(botObj) = 2
  /\ activeBots = <<2>>
  /\ BagIn(<<2, "add">>, pending)
  /\ file = [kind |-> "list", data |-> <<botObj[2].config>>]
  /\ botObj[1].config # botObj[2].config

\* C2: a stop of an online record clears its handle in the stop call, and
\* the 'end' event of a session that was told to quit schedules no
\* reconnect timer.
C2_StoppedEndNeverReconnects ==
  [][\A s \in 1..Len(sessions) :
       /\ (sessions[s].st = "live" /\ sessions'[s].st = "quitting")
            => botObj'[sessions[s].index].instance = 0
       /\ (sessions[s].st = "quitting" /\ sessions'[s].st = "ended")
            => timers' = timers]_vars

C4_DeleteStopsThenRemoves ==
  [][\A i \in Indexes :
       /\ (DeleteBot(i) /\ find(World, i) /\ botObj[i].instance # 0)
            => LET s == botObj[i].instance
               IN  /\ sessions'[s].st = "quitting"
                   /\ sessions'[s].sawStopped
                   /\ sessions'[s].sawHandle = s
                   /\ botObj'[i].manuallyStopped
                   /\ botObj'[i].instance = 0
                   /\ ~find(World', i)
       /\ (phase = "run" /\ i <= Len(botObj) /\ ~find(World, i))
            => \A k \in 1..Len(status(World')) : status(World')[k].index # i]_vars

C4_Witness ==
  \E s \in 1..Len(sessions) :
    /\ sessions[s].st = "ended"
    /\ sessions[s].sawStopped
    /\ sessions[s].sawHandle = s
    /\ ~find(World, sessions[s].index)
    /\ BagIn(sessions[s].index, timers)

\* C5: no record has two sessions that have not yet emitted 'end', and no
\* session handle is held by two records.
C5_OneSessionPerRecord ==
  /\ \A s1, s2 \in 1..Len(sessions) :
        (s1 # s2 /\ sessions[s1].index = sessions[s2].index)
          => (sessions[s1].st = "ended" \/ sessions[s2].st = "ended")
  /\ \A i, j \in 1..Len(botObj) :
        (i # j /\ botObj[i].instance # 0)
          => botObj[i].instance # botObj[j].instance

\* C6: with auto-reconnect enabled, when a timer-driven start of a record
\* that is in the store and not manually stopped fails at the probe and
\* leaves the record offline, a further start of that record is under way:
\* a reconnect timer or a start awaiting its probe.
C6_ReconnectLoopContinues ==
  [][\A i \in Indexes :
       (/\ ProbeResolve(<<i, "timer">>, FALSE)
        /\ autoReconnect
        /\ find(World', i)
        /\ ~botObj'[i].manuallyStopped
        /\ botObj'[i].instance = 0)
         => \/ BagIn(i, timers')
            \/ \E o \in Origins : BagIn(<<i, o>>, pending')]_vars

\* C7: the log buffer never holds more than LogCapacity entries, and after
\* n appends it holds the last min(n, LogCapacity) appended entries, oldest
\* first.
C7_LogKeepsMostRecent ==
  /\ Len(logs) <= LogCapacity
  /\ Len(logs) = IF lastT(logs) < LogCapacity THEN lastT(logs) ELSE LogCapacity
  /\ \A k \in 1..Len(logs) : logs[k].t = lastT(logs) - Len(logs) + k

C7_Witness ==
  /\ Len(logs) = LogCapacity
  /\ logs[1].t = 4
  /\ logs[LogCapacity].t = LogCapacity + 3

\* C8: init() builds one record per persisted configuration, in the
\* persisted order, each without a handle and with manuallyStopped = TRUE;
\* it starts no record when auto-join is off and every record when it is on.
C8_InitLoadsStopped ==
  [][Boot =>
       LET saved == IF file.kind = "list" THEN file.data ELSE <<>>
       IN  /\ Len(activeBots') = Len(saved)
           /\ \A k \in 1..Len(saved) :
                 botObj'[activeBots'[k]] =
                   [config |-> saved[k], instance |-> 0, manuallyStopped |-> TRUE]
           /\ \A k, m \in 1..Len(saved) : k # m => activeBots'[k] # activeBots'[m]
           /\ ~autoJoin => (pending' = EmptyBag /\ starts' = 0)
           /\ autoJoin =>
                 /\ BagCardinality(pending') = Len(saved)
                 /\ \A k \in 1..Len(saved) :
                       CopiesIn(<<activeBots'[k], "init">>, pending') = 1]_vars

C8_Witness ==
  /\ phase = "run"
  /\ autoJoin
  /\ Len(activeBots) = 2
  /\ botObj[1].config # botObj[2].config
  /\ botObj[1].manuallyStopped /\ botObj[2].manuallyStopped
  /\ BagIn(<<1, "init">>, pending) /\ BagIn(<<2, "init">>, pending)
  /\ Count(logs, "Pinging") = 2
  /\ sessions = <<>>

\* C9: the 'end' event of a session whose record is in the store clears the
\* record's handle and schedules exactly one start timer when the record is
\* not manually stopped and auto-reconnect is on, and none otherwise; for a
\* deleted record it schedules none.
C9_EndSchedulesOneRetry ==
  [][\A s \in 1..MaxSessions :
       SessionEnd(s) =>
         LET i == sessions[s].index
         IN  IF find(World, i)
             THEN /\ botObj'[i].instance = 0
                  /\ IF ~botObj[i].manuallyStopped /\ autoReconnect
                     THEN timers' = timers (+) SetToBag({i})
                     ELSE timers' = timers
             ELSE /\ timers' = timers
                  /\ botObj' = botObj]_vars

C9_Witness ==
  \E s \in 1..Len(sessions) :
    LET i == sessions[s].index
    IN  /\ sessions[s].st = "ended"
        /\ sessions[s].sawHandle = 0
        /\ find(World, i)
        /\ botObj[i].instance = 0
        /\ ~botObj[i].manuallyStopped
        /\ CopiesIn(i, timers) = 1
        /\ logs[Len(logs)].msg.kind = "AutoReconnecting"

\* C10: a stop of an online record issues quit() to the record's session
\* after manuallyStopped was set and before the handle was cleared: the
\* session sees manuallyStopped = TRUE and itself as the handle at the call,
\* and the handle is clear when stop returns.
C10_StopOrder ==
  [][\A i \in Indexes :
       (ControlStop(i) /\ find(World, i) /\ botObj[i].instance # 0)
         => LET s == botObj[i].instance
            IN  /\ sessions[s].st = "live"
                /\ sessions'[s].st = "quitting"
                /\ sessions'[s].sawStopped
                /\ sessions'[s].sawHandle = s
                /\ botObj'[i].manuallyStopped
                /\ botObj'[i].instance = 0]_vars

C10_Witness ==
  \E s \in 1..Len(sessions) :
    LET i == sessions[s].index
    IN  /\ sessions[s].st = "quitting"
        /\ sessions[s].sawStopped
        /\ sessions[s].sawHandle = s
        /\ find(World, i)
        /\ botObj[i].manuallyStopped
        /\ botObj[i].instance = 0

\* C11: when a start command's probe reports reachable for a record in the
\* store for which a stop command arrived after that start was called, the
\* record is not made online by that start.
C11_StopDiscardsInFlightStart ==
  [][\A i \in Indexes, o \in {"init", "add", "control"} :
       (ProbeResolve(<<i, o>>, TRUE) /\ i \in stopIssued /\ find(World, i))
         => ~(/\ Len(sessions') > Len(sessions)
              /\ botObj'[i].instance = Len(sessions')
              /\ sessions'[Len(sessions')].st = "live")]_vars

\* C12 as claimed: add-bot appends an offline, not manually stopped record,
\* persists and starts it; when its probe reports reachable the record is
\* online in every snapshot that lists it, when it reports unreachable it is
\* offline there.
C12_AddReportsProbeResult ==
  [][/\ \A c \in Configs :
          AddBot(c) =>
            LET i == Len(botObj) + 1
            IN  /\ activeBots' = Append(activeBots, i)
                /\ botObj'[i] = [config |-> c, instance |-> 0,
                                 manuallyStopped |-> FALSE]
                /\ file' = [kind |-> "list", data |-> configsOf(World')]
                /\ CopiesIn(<<i, "add">>, pending') = 1
     /\ \A i \in Indexes :
          /\ ProbeResolve(<<i, "add">>, TRUE)
               => \A k \in 1..Len(activeBots') :
                     status(World')[k].index = i
                       => status(World')[k].status = "online"
          /\ ProbeResolve(<<i, "add">>, FALSE)
               => \A k \in 1..Len(activeBots') :
                     status(World')[k].index = i
                       => status(World')[k].status = "offline"]_vars

\* C12 as amended: add-bot appends an offline, not manually stopped record
\* at the end of the store, persists and starts it; when its probe reports
\* reachable the record holds the new session, and is online in the
\* snapshot unless it was deleted meanwhile; when it reports unreachable no
\* session is created and no record changes, so the record is offline
\* unless another start of it connected meanwhile.
C12_AddStartsNewRecord ==
  [][/\ \A c \in Configs :
          AddBot(c) =>
            LET i == Len(botObj) + 1
            IN  /\ activeBots' = Append(activeBots, i)
                /\ botObj'[i] = [config |-> c, instance |-> 0,
                                 manuallyStopped |-> FALSE]
                /\ file' = [kind |-> "list", data |-> configsOf(World')]
                /\ CopiesIn(<<i, "add">>, pending') = 1
                /\ sessions' = sessions
     /\ \A i \in Indexes :
          /\ ProbeResolve(<<i, "add">>, TRUE)
               => /\ Len(sessions') = Len(sessions) + 1
                  /\ botObj'[i].instance = Len(sessions')
                  /\ \A k \in 1..Len(activeBots') :
                        status(World')[k].index = i
                          => status(World')[k].status = "online"
          /\ ProbeResolve(<<i, "add">>, FALSE)
               => /\ sessions' = sessions
                  /\ botObj' = botObj
                  /\ \/ botObj'[i].instance = 0
                     \/ \E s \in 1..Len(sessions) : sessions[s].index = i]_vars

C12_Witness ==
  /\ logs # <<>>
  /\ logs[1].msg = Msg("Initialized", 0)
  /\ activeBots = <<1>>
  /\ starts = 1
  /\ pending = EmptyBag
  /\ status(World)[1].status = "online"
  /\ ~botObj[1].manuallyStopped
  /\ file = [kind |-> "list", data |-> <<botObj[1].config>>]

\* C13: the continuation of a start whose probe reports reachable creates
\* exactly one session, for the record's index and configuration, stores it
\* as the record's handle and clears manuallyStopped.
C13_ReachableStartConnectsOnce ==
  [][\A p \in Indexes \X Origins :
       ProbeResolve(p, TRUE)
         => LET i == p[1]
                n == Len(sessions) + 1
            IN  /\ Len(sessions') = n
                /\ \A s \in 1..Len(sessions) : sessions'[s] = sessions[s]
                /\ sessions'[n].index = i
                /\ sessions'[n].config = botObj[i].config
                /\ sessions'[n].st = "live"
                /\ botObj'[i].instance = n
                /\ ~botObj'[i].manuallyStopped]_vars

\* a loaded record, started by hand, whose session ended: a retry is armed
C13_Witness ==
  /\ logs # <<>>
  /\ logs[1].msg = Msg("Initialized", 1)
  /\ ~autoJoin
  /\ Len(botObj) = 1
  /\ Len(sessions) = 1
  /\ sessions[1].st = "ended"
  /\ ~botObj[1].manuallyStopped
  /\ BagIn(1, timers)

\* C14: a stop command for an index that is not in the store, or whose
\* record has no handle, changes neither the store, the records, the file,
\* the sessions, the log buffer, the timers nor the starts in flight.
C14_StopOfflineIsNoOp ==
  [][\A i \in Indexes :
       (ControlStop(i) /\ (~find(World, i) \/ botObj[i].instance = 0))
         => UNCHANGED <<file, activeBots, botObj, sessions, logs, pending,
                        timers, starts>>]_vars

C14_Witness ==
  /\ 1 \in stopIssued
  /\ find(World, 1)
  /\ sessions = <<>>
  /\ ~botObj[1].manuallyStopped
  /\ BagIn(<<1, "add">>, pending)

\* C15: a probe's promise is never rejected, once settled it keeps its
\* value, it is true only through the connect callback and false only
\* through the timeout or the socket's error.
C15_ProbeSettlesBoolean ==
  [][/\ probe'.promise # "rejected"
     /\ probe.promise # "pending" => probe'.promise = probe.promise
     /\ probe'.promise = "true" => probe'.cause = "connect"
     /\ probe'.promise = "false" => probe'.cause \in {"timeout", "error"}]_vars

\* C16: the 'end' event of a session that is not the current handle of its
\* record neither changes the record's handle nor schedules a reconnect.
C16_StaleEndIsIgnored ==
  [][\A s \in 1..MaxSessions :
       (/\ SessionEnd(s)
        /\ find(World, sessions[s].index)
        /\ botObj[sessions[s].index].instance # s)
         => /\ botObj'[sessions[s].index].instance
                 = botObj[sessions[s].index].instance
            /\ timers' = timers]_vars

\* C17: no start creates a session for an index that has left the store,
\* and no session of such an index is left live.
C17_NoSessionAfterDelete ==
  [][/\ \A p \in Indexes \X Origins :
          (ProbeResolve(p, TRUE) /\ ~find(World, p[1])) => sessions' = sessions
     /\ \A s \in 1..Len(sessions') :
          ~find(World', sessions'[s].index) => sessions'[s].st # "live"]_vars

\* C18: the handle of every record in the store is null or a session that
\* has not emitted 'end'.
C18_OnlineMeansNotEnded ==
  \A k \in 1..Len(activeBots) :
    LET b == botObj[activeBots[k]]
    IN  b.instance # 0 => sessions[b.instance].st # "ended"

C18_Witness ==
  \E k \in 1..Len(activeBots), s0 \in 1..Len(sessions) :
    LET b == botObj[activeBots[k]]
    IN  /\ status(World)[k].status = "online"
        /\ sessions[b.instance].st = "live"
        /\ s0 # b.instance
        /\ sessions[s0].index = activeBots[k]
        /\ sessions[s0].st = "ended"

\* C19: a timer-driven start of a record in the store for which a stop
\* command was received, and no start command since, creates no session.
C19_StopPreventsTimerReconnect ==
  [][\A i \in Indexes :
       (ProbeResolve(<<i, "timer">>, TRUE) /\ i \in stopIssued /\ find(World, i))
         => sessions' = sessions]_vars

\* C20: a record whose manuallyStopped is TRUE has no handle.
C20_StoppedMeansOffline ==
  \A i \in 1..Len(botObj) : botObj[i].manuallyStopped => botObj[i].instance = 0

C20_Witness ==
  \E s \in 1..Len(sessions) :
    LET i == sessions[s].index
    IN  /\ sessions[s].st = "ended"
        /\ sessions[s].sawStopped
        /\ find(World, i)
        /\ i \in stopIssued
        /\ botObj[i].manuallyStopped
        /\ botObj[i].instance = 0
        /\ \E o \in Origins : BagIn(<<i, o>>, pending)

TypeOK ==
  /\ phase \in {"boot", "run"}
  /\ Len(logs) <= LogCapacity
  /\ Range(activeBots) \subseteq 1..Len(botObj)
  /\ \A i \in 1..Len(botObj) : botObj[i].instance \in 0..Len(sessions)
====
